---- MODULE Spec2Model ----
(***************************************************************************)
(* Model of the Nexus retention policy tool: the retention engine          *)
(* (internal/retention/policy.go), the rule and protection lookups         *)
(* (internal/config/config.go) and the paginated registry client           *)
(* (internal/nexus).  Timestamps are naturals, 0 being Go's zero           *)
(* time.Time; console output is not modelled (it changes no state).        *)
(***************************************************************************)
EXTENDS Integers, Sequences, FiniteSets, TLC

VARIABLES
    config,             \* *config.Config: [Rules, ProtectedTags]
    dryRun,             \* PolicyEngine.dryRun
    tieBreak,           \* how this build's sort.Slice orders equal elements
    pages,              \* registry: repository name -> its chain of component pages
    loopTo,             \* registry: repository name -> the page its last page's
                        \*   token leads back to, 0 when the chain ends there
    removed,            \* registry: ids of the components deleted so far
    auditLog,           \* the records appended to the deletion log, in file order
    mu,                 \* Logger.mu: 0 when unlocked, else the job holding it
    writer,             \* Logger.writer: the cells buffered and not yet flushed
    file,               \* Logger.file: the cells of the log file, in file order
    jobs,               \* cron: the goroutine of each triggered Execute call
    run,                \* number of Execute calls started
    pc,                 \* position of the current Execute call
    err,                \* result of the last Execute call: "none", "nil" or "error"
    repos,              \* Execute: repos
    repoIdx,            \* Execute: index of the repository being processed
    continuationToken,  \* GetComponents: continuationToken
    allComponents,      \* GetComponents: allComponents
    imageGroups,        \* Execute: the groups of the map not yet visited
    frame,              \* processImageGroup: locals of the call in progress
    totalDeleted,       \* Execute: totalDeleted
    totalKept,          \* Execute: totalKept
    obs,                \* history of the current Execute call
    past                \* history: the observations of the finished Execute calls

vars == << config, dryRun, tieBreak, pages, loopTo, removed, auditLog, mu,
           writer, file, jobs, run, pc, err, repos, repoIdx, continuationToken,
           allComponents, imageGroups, frame, totalDeleted, totalKept, obs, past >>

-----------------------------------------------------------------------------
(* Bounds of the model *)

MaxRuns == 2
MaxKeep == 2
MaxGroup == 3
MaxPages == 3
MaxRules == 3
MaxPageLen == 2
MaxRequests == 6

(* time.Time{}, the zero timestamp *)
ZeroTime == 0

(* The non-zero timestamps the inputs are drawn from: an earlier and a    *)
(* later one                                                              *)
Times == {1, 2}

(* The tags, image names and rule names the inputs are drawn from *)
Tags == {"latest", "v1", "v2"}
ImageNames == {"prod-app", "dev-app", "misc"}
RuleNames == {"first", "second"}
Regexes == {"^prod-.*", ".*-app", ".*"}
TieBreaks == {"input", "reverse"}

-----------------------------------------------------------------------------
(* internal/config *)

(* regexp.MatchString restricted to ImageNames: the image names in which  *)
(* the pattern finds a match (Go's match is unanchored unless the pattern *)
(* anchors it).                                                           *)
MatchString(regex, imageName) ==
    CASE regex = "^prod-.*" -> imageName \in {"prod-app"}
      [] regex = ".*-app"   -> imageName \in {"prod-app", "dev-app"}
      [] regex = ".*"       -> TRUE
      [] OTHER              -> FALSE

(* Rule.Matches: a rule without a compiled pattern matches nothing *)
Matches(rule, imageName) ==
    IF ~rule.compiled THEN FALSE ELSE MatchString(rule.Regex, imageName)

(* Mutant of IsProtected: nothing is protected *)
IsProtectedNever(cfg, tag) == FALSE

(* Config.IsProtected *)
IsProtected(cfg, tag) == \E protected \in cfg.ProtectedTags : protected = tag

RECURSIVE ScanRules(_, _, _)
(* The loop of GetKeepCount from rule i on *)
ScanRules(rules, imageName, i) ==
    IF i > Len(rules)
    THEN [keepCount |-> 0, ruleName |-> "", matched |-> FALSE]
    ELSE IF Matches(rules[i], imageName)
         THEN [keepCount |-> rules[i].Keep, ruleName |-> rules[i].Name,
               matched |-> TRUE]
         ELSE ScanRules(rules, imageName, i + 1)

(* Mutant of GetKeepCount: the last matching rule wins *)
GetKeepCountLast(cfg, imageName) ==
    LET hits == {i \in 1..Len(cfg.Rules) : Matches(cfg.Rules[i], imageName)}
    IN  IF hits = {}
        THEN [keepCount |-> 0, ruleName |-> "", matched |-> FALSE]
        ELSE LET j == CHOOSE i \in hits : \A h \in hits : h <= i
             IN  [keepCount |-> cfg.Rules[j].Keep,
                  ruleName |-> cfg.Rules[j].Name, matched |-> TRUE]

(* Mutant of GetKeepCount: an image no rule matches falls under a default *)
GetKeepCountDefault(cfg, imageName) ==
    IF ScanRules(cfg.Rules, imageName, 1).matched
    THEN ScanRules(cfg.Rules, imageName, 1)
    ELSE [keepCount |-> 1, ruleName |-> "default", matched |-> TRUE]

(* Config.GetKeepCount *)
GetKeepCount(cfg, imageName) == ScanRules(cfg.Rules, imageName, 1)

ValidateAnyKeep(cfg) == Len(cfg.Rules) # 0

(* Config.Validate, for the rules: there is at least one rule and every   *)
(* rule's keep count is at least 1.  Load returns no configuration that   *)
(* fails it.                                                              *)
Validate(cfg) ==
    /\ Len(cfg.Rules) # 0
    /\ \A i \in 1..Len(cfg.Rules) : ~(cfg.Rules[i].Keep < 1)

-----------------------------------------------------------------------------
(* internal/retention: the pure part of the engine *)

RECURSIVE LatestFrom(_, _, _)
(* The loop of getLastModified from asset i on *)
LatestFrom(assets, i, latest) ==
    IF i > Len(assets)
    THEN latest
    ELSE LatestFrom(assets, i + 1,
                    IF assets[i].LastModified > latest
                    THEN assets[i].LastModified ELSE latest)

(* Mutant of getLastModified: the first asset's timestamp *)
getLastModifiedFirst(comp) ==
    IF Len(comp.Assets) = 0 THEN ZeroTime ELSE comp.Assets[1].LastModified

(* PolicyEngine.getLastModified *)
getLastModified(comp) ==
    IF Len(comp.Assets) = 0
    THEN ZeroTime
    ELSE LatestFrom(comp.Assets, 1, comp.Assets[1].LastModified)

(* The comparison handed to sort.Slice: i's component is After j's *)
Less(components, i, j) ==
    getLastModified(components[i]) > getLastModified(components[j])

(* Mutant of SortSlice: the slice is left in its input order *)
SortSliceNone(components, tb) == components

(* sort.Slice(components, less): the components in an order in which no    *)
(* element is less than an earlier one.  Elements that compare equal come  *)
(* in the order the build's algorithm leaves them in, which depends on the *)
(* input alone: in input order or reversed, by tb.                         *)
SortSlice(components, tb) ==
    LET n == Len(components)
        Before(i, j) ==
            \/ Less(components, i, j)
            \/ /\ ~Less(components, j, i)
               /\ IF tb = "input" THEN i < j ELSE i > j
        pos(i) == 1 + Cardinality({j \in 1..n : Before(j, i)})
    IN  [p \in 1..n |-> components[CHOOSE i \in 1..n : pos(i) = p]]

(* PolicyEngine.groupByImageName *)
groupByImageName(components) ==
    LET names == {components[i].Name : i \in 1..Len(components)}
    IN  [imageName \in names |->
            SelectSeq(components, LAMBDA comp : comp.Name = imageName)]

(* Mutant of KeepSplit: the oldest keepCount components are kept *)
KeepSplitOldest(regularComps, keepCount) ==
    IF Len(regularComps) > keepCount
    THEN [toKeep |-> SubSeq(regularComps, Len(regularComps) - keepCount + 1,
                            Len(regularComps)),
          toDelete |-> SubSeq(regularComps, 1, Len(regularComps) - keepCount)]
    ELSE [toKeep |-> regularComps, toDelete |-> << >>]

KeepSplitOverlap(regularComps, keepCount) ==
    IF Len(regularComps) > keepCount
    THEN [toKeep |-> SubSeq(regularComps, 1, keepCount),
          toDelete |-> SubSeq(regularComps, keepCount, Len(regularComps))]
    ELSE [toKeep |-> regularComps, toDelete |-> << >>]

(* processImageGroup: toKeep and toDelete *)
KeepSplit(regularComps, keepCount) ==
    IF Len(regularComps) > keepCount
    THEN [toKeep |-> SubSeq(regularComps, 1, keepCount),
          toDelete |-> SubSeq(regularComps, keepCount + 1, Len(regularComps))]
    ELSE [toKeep |-> regularComps, toDelete |-> << >>]

(* processImageGroup up to its deletion loop: the rule match, the sort,   *)
(* the separation of the protected components and the split.              *)
Decide(cfg, tb, imageName, components) ==
    LET rule == GetKeepCount(cfg, imageName)
        sorted == SortSlice(components, tb)
        protectedComps ==
            SelectSeq(sorted, LAMBDA comp : IsProtected(cfg, comp.Version))
        regularComps ==
            SelectSeq(sorted, LAMBDA comp : ~IsProtected(cfg, comp.Version))
        split == KeepSplit(regularComps, rule.keepCount)
    IN  IF Len(components) = 0 \/ ~rule.matched
        THEN [matched |-> FALSE, keepCount |-> 0, ruleName |-> "",
              protectedComps |-> << >>, regularComps |-> << >>,
              toKeep |-> << >>, toDelete |-> << >>, kept |-> 0]
        ELSE [matched |-> TRUE, keepCount |-> rule.keepCount,
              ruleName |-> rule.ruleName,
              protectedComps |-> protectedComps, regularComps |-> regularComps,
              toKeep |-> split.toKeep, toDelete |-> split.toDelete,
              kept |-> Len(protectedComps) + Len(split.toKeep)]

-----------------------------------------------------------------------------
(* The registry, as the client sees it *)

(* A nexus.Component whose assets carry the given lastModified timestamps *)
Comp(id, repo, name, version, times) ==
    [ID |-> id, Repository |-> repo, Name |-> name, Version |-> version,
     Assets |-> [i \in 1..Len(times) |-> [LastModified |-> times[i]]]]

(* The response to GET /service/rest/v1/repositories *)
RegistryRepos ==
    << [Name |-> "r1", Format |-> "docker", Type |-> "hosted"],
       [Name |-> "mirror", Format |-> "docker", Type |-> "proxy"],
       [Name |-> "r2", Format |-> "docker", Type |-> "hosted"],
       [Name |-> "libs", Format |-> "maven2", Type |-> "hosted"] >>

(* The continuation token the registry returns with page i of a listing *)
Token(i) == "t" \o ToString(i)

(* The ComponentPage the registry returns for a repository and a token:   *)
(* the token of page i asks for page i + 1, the empty token for page 1.   *)
(* The last page carries the empty token, unless the registry leads back  *)
(* from it: then it carries a token too, which asks for page loopTo[repo] *)
(* again.                                                                 *)
ServePage(repo, token) ==
    LET chain == pages[repo]
        asked == CHOOSE k \in 1..Len(chain) : Token(k) = token
        i == IF token = "" THEN 1
             ELSE IF asked = Len(chain) THEN loopTo[repo]
             ELSE asked + 1
    IN  IF i > Len(chain)
        THEN [Items |-> << >>, ContinuationToken |-> ""]
        ELSE [Items |-> SelectSeq(chain[i], LAMBDA comp : comp.ID \notin removed),
              ContinuationToken |-> IF i < Len(chain) \/ loopTo[repo] # 0
                                    THEN Token(i)
                                    ELSE ""]

(* GetDockerRepositories: the docker hosted repositories of the response *)
DockerHosted(listing) ==
    LET hosted == SelectSeq(listing,
                      LAMBDA repo : repo.Format = "docker" /\ repo.Type = "hosted")
    IN  [i \in 1..Len(hosted) |-> hosted[i].Name]

-----------------------------------------------------------------------------
(* History variables *)

(* The observations of an Execute call that has done nothing yet *)
NoObs ==
    [deleteCalls |-> << >>,   \* the DeleteComponent calls: [id, ok]
     kept |-> << >>,          \* the ids counted as kept, one per kept++
     decisions |-> << >>,     \* one entry per processImageGroup call
     audit |-> << >>,         \* the records handed to LogDeletion
     requests |-> << >>,      \* the component listing requests: [repo, token]
     listFailed |-> FALSE,    \* GetDockerRepositories returned an error
     failedRepos |-> {},      \* repositories whose GetComponents returned an error
     removedAtStart |-> {}]   \* the registry's removed ids when the call began

(* processImageGroup's locals outside a call *)
NoFrame ==
    [repoName |-> "", imageName |-> "", ruleName |-> "", toDelete |-> << >>,
     i |-> 0, deleted |-> 0, kept |-> 0]

(* What is recorded of an Execute call when it returns *)
Summary(o, e) ==
    [err |-> e, dryRun |-> dryRun, totalDeleted |-> totalDeleted,
     totalKept |-> totalKept, removedAtEnd |-> removed, repos |-> repos] @@ o

(* The ids of a sequence of components *)
IDs(components) == [i \in 1..Len(components) |-> components[i].ID]

-----------------------------------------------------------------------------
(* Logger and the goroutines of the scheduler *)

(* The goroutines cron starts for two triggers of the schedule: it starts *)
(* a job at its time whether or not an earlier one still runs.            *)
Jobs == {1, 2}

(* A job cron has not triggered *)
NoJob ==
    [pc |-> "waiting", repoName |-> "", imageName |-> "", ruleName |-> "",
     toDelete |-> << >>, i |-> 0, n |-> 0, deleted |-> 0, logged |-> << >>]

(* NewLogger on a new file: the header line *)
Header ==
    << "Timestamp", "Repository", "Image Name", "Tag", "Component ID", "Rule",
       "Dry Run", "\n" >>

(* LogDeletion: the row of a record, then the line end csv.Writer adds.   *)
(* Both jobs run within one second, so time.Now formats to the same cell. *)
Row(record) ==
    << "now", record.Repository, record.ImageName, record.Tag,
       record.ComponentID, record.Rule,
       IF record.DryRun THEN "true" ELSE "false", "\n" >>

(* The logger after NewLogger, and no job triggered *)
InitLogger ==
    /\ mu = 0
    /\ writer = << >>
    /\ file = Header
    /\ jobs = [p \in Jobs |-> NoJob]

(* A registry all of whose chains end *)
NoLoop == [repo \in {"r1", "r2"} |-> 0]

-----------------------------------------------------------------------------
(* PolicyEngine.Execute *)

(* Execute is entered: its locals are fresh *)
EnterExecute ==
    /\ pc = "idle"
    /\ run' = run + 1
    /\ pc' = "listRepos"
    /\ err' = "none"
    /\ repos' = << >>
    /\ repoIdx' = 0
    /\ continuationToken' = ""
    /\ allComponents' = << >>
    /\ imageGroups' = << >>
    /\ frame' = NoFrame
    /\ totalDeleted' = 0
    /\ totalKept' = 0
    /\ obs' = [NoObs EXCEPT !.removedAtStart = removed]
    /\ UNCHANGED << mu, writer, file, jobs, loopTo,
                    config, dryRun, tieBreak, pages, removed, auditLog, past >>

(* run without a schedule: Execute is called once *)
OneTimeExecute ==
    /\ run = 0
    /\ EnterExecute

(* run with a schedule: the cron job calls Execute at each trigger; here  *)
(* a trigger finds the previous call finished.                            *)
ScheduledExecute ==
    /\ run < MaxRuns
    /\ EnterExecute

(* GetDockerRepositories succeeds *)
ListRepositoriesOk ==
    /\ pc = "listRepos"
    /\ repos' = DockerHosted(RegistryRepos)
    /\ repoIdx' = 1
    /\ pc' = "loop"
    /\ UNCHANGED << mu, writer, file, jobs, loopTo,
                    config, dryRun, tieBreak, pages, removed, auditLog, run, err,
                    continuationToken, allComponents, imageGroups, frame,
                    totalDeleted, totalKept, obs, past >>

(* GetDockerRepositories fails: Execute returns the error *)
ListRepositoriesFail ==
    /\ pc = "listRepos"
    /\ obs' = [obs EXCEPT !.listFailed = TRUE]
    /\ err' = "error"
    /\ pc' = "idle"
    /\ past' = Append(past, Summary(obs', "error"))
    /\ UNCHANGED << mu, writer, file, jobs, loopTo,
                    config, dryRun, tieBreak, pages, removed, auditLog, run,
                    repos, repoIdx, continuationToken, allComponents,
                    imageGroups, frame, totalDeleted, totalKept >>

(* The repository loop takes its next repository: GetComponents begins *)
BeginGetComponents ==
    /\ pc = "loop"
    /\ repoIdx <= Len(repos)
    /\ pc' = "fetch"
    /\ continuationToken' = ""
    /\ allComponents' = << >>
    /\ UNCHANGED << mu, writer, file, jobs, loopTo,
                    config, dryRun, tieBreak, pages, removed, auditLog, run, err,
                    repos, repoIdx, imageGroups, frame, totalDeleted, totalKept,
                    obs, past >>

(* The repository loop is over: Execute returns nil *)
ExecuteReturn ==
    /\ pc = "loop"
    /\ repoIdx > Len(repos)
    /\ err' = "nil"
    /\ pc' = "idle"
    /\ past' = Append(past, Summary(obs, "nil"))
    /\ UNCHANGED << mu, writer, file, jobs, loopTo,
                    config, dryRun, tieBreak, pages, removed, auditLog, run,
                    repos, repoIdx, continuationToken, allComponents,
                    imageGroups, frame, totalDeleted, totalKept, obs >>

-----------------------------------------------------------------------------
(* Client.GetComponents, one request per step *)

(* Mutant of FetchPageOk: each page replaces the pages fetched before it *)
FetchPageOkOverwrite ==
    /\ pc = "fetch"
    /\ LET repo == repos[repoIdx]
           page == ServePage(repo, continuationToken)
       IN  /\ obs' = [obs EXCEPT !.requests =
                         Append(@, [repo |-> repo, token |-> continuationToken])]
           /\ allComponents' = page.Items
           /\ IF page.ContinuationToken = ""
              THEN /\ imageGroups' = groupByImageName(page.Items)
                   /\ pc' = "range"
                   /\ UNCHANGED continuationToken
              ELSE /\ continuationToken' = page.ContinuationToken
                   /\ UNCHANGED << pc, imageGroups >>
    /\ UNCHANGED << mu, writer, file, jobs, loopTo,
                    config, dryRun, tieBreak, pages, removed, auditLog, run, err,
                    repos, repoIdx, frame, totalDeleted, totalKept, past >>

FetchPageOkLimit ==
    /\ pc = "fetch"
    /\ LET repo == repos[repoIdx]
           page == ServePage(repo, continuationToken)
           all == allComponents \o page.Items
       IN  /\ obs' = [obs EXCEPT !.requests =
                         Append(@, [repo |-> repo, token |-> continuationToken])]
           /\ allComponents' = all
           /\ IF page.ContinuationToken = "" \/ continuationToken # ""
              THEN /\ imageGroups' = groupByImageName(all)
                   /\ pc' = "range"
                   /\ UNCHANGED continuationToken
              ELSE /\ continuationToken' = page.ContinuationToken
                   /\ UNCHANGED << pc, imageGroups >>
    /\ UNCHANGED << mu, writer, file, jobs, loopTo,
                    config, dryRun, tieBreak, pages, removed, auditLog, run, err,
                    repos, repoIdx, frame, totalDeleted, totalKept, past >>

(* A page request succeeds: its items are appended; on an empty token     *)
(* GetComponents returns and Execute groups the components by image name. *)
FetchPageOk ==
    /\ pc = "fetch"
    /\ LET repo == repos[repoIdx]
           page == ServePage(repo, continuationToken)
           all == allComponents \o page.Items
       IN  /\ obs' = [obs EXCEPT !.requests =
                         Append(@, [repo |-> repo, token |-> continuationToken])]
           /\ allComponents' = all
           /\ IF page.ContinuationToken = ""
              THEN /\ imageGroups' = groupByImageName(all)
                   /\ pc' = "range"
                   /\ UNCHANGED continuationToken
              ELSE /\ continuationToken' = page.ContinuationToken
                   /\ UNCHANGED << pc, imageGroups >>
    /\ UNCHANGED << mu, writer, file, jobs, loopTo,
                    config, dryRun, tieBreak, pages, removed, auditLog, run, err,
                    repos, repoIdx, frame, totalDeleted, totalKept, past >>

(* Mutant of FetchPageFail: the pages fetched so far are processed *)
FetchPageFailPartial ==
    /\ pc = "fetch"
    /\ obs' = [obs EXCEPT
                 !.requests = Append(@, [repo |-> repos[repoIdx],
                                         token |-> continuationToken]),
                 !.failedRepos = @ \cup {repos[repoIdx]}]
    /\ imageGroups' = groupByImageName(allComponents)
    /\ pc' = "range"
    /\ UNCHANGED << mu, writer, file, jobs, loopTo,
                    config, dryRun, tieBreak, pages, removed, auditLog, run, err,
                    repos, repoIdx, continuationToken, allComponents, frame,
                    totalDeleted, totalKept, past >>

(* A page request fails: GetComponents returns nil and the error, and     *)
(* Execute continues with the next repository.                           *)
FetchPageFail ==
    /\ pc = "fetch"
    /\ obs' = [obs EXCEPT
                 !.requests = Append(@, [repo |-> repos[repoIdx],
                                         token |-> continuationToken]),
                 !.failedRepos = @ \cup {repos[repoIdx]}]
    /\ allComponents' = << >>
    /\ repoIdx' = repoIdx + 1
    /\ pc' = "loop"
    /\ UNCHANGED << mu, writer, file, jobs, loopTo,
                    config, dryRun, tieBreak, pages, removed, auditLog, run, err,
                    repos, continuationToken, imageGroups, frame,
                    totalDeleted, totalKept, past >>

-----------------------------------------------------------------------------
(* PolicyEngine.processImageGroup *)

(* The range over imageGroups visits a group not visited yet, in no       *)
(* particular order: processImageGroup runs up to its deletion loop, and  *)
(* returns at once when nothing is marked for deletion.                   *)
ProcessImageGroup(imageName) ==
    /\ pc = "range"
    /\ imageName \in DOMAIN imageGroups
    /\ \E components \in {imageGroups[imageName]} :
       \E d \in {Decide(config, tieBreak, imageName, components)} :
           /\ obs' = [obs EXCEPT
                        !.decisions = Append(@,
                            [repo |-> repos[repoIdx], image |-> imageName,
                             components |-> components, matched |-> d.matched,
                             ruleName |-> d.ruleName, keepCount |-> d.keepCount,
                             protectedComps |-> IDs(d.protectedComps),
                             regularComps |-> d.regularComps,
                             toKeep |-> IDs(d.toKeep),
                             toDelete |-> IDs(d.toDelete)]),
                        !.kept = @ \o IDs(d.protectedComps) \o IDs(d.toKeep)]
           /\ IF Len(d.toDelete) = 0
              THEN /\ totalKept' = totalKept + d.kept
                   /\ frame' = NoFrame
                   /\ pc' = "range"
              ELSE /\ frame' = [repoName |-> repos[repoIdx],
                                imageName |-> imageName, ruleName |-> d.ruleName,
                                toDelete |-> d.toDelete, i |-> 1, deleted |-> 0,
                                kept |-> d.kept]
                   /\ pc' = "delete"
                   /\ UNCHANGED totalKept
    /\ imageGroups' = [n \in DOMAIN imageGroups \ {imageName} |-> imageGroups[n]]
    /\ UNCHANGED << mu, writer, file, jobs, loopTo,
                    config, dryRun, tieBreak, pages, removed, auditLog, run, err,
                    repos, repoIdx, continuationToken, allComponents,
                    totalDeleted, past >>

(* Every group of the repository has been visited *)
EndRange ==
    /\ pc = "range"
    /\ DOMAIN imageGroups = {}
    /\ repoIdx' = repoIdx + 1
    /\ pc' = "loop"
    /\ UNCHANGED << mu, writer, file, jobs, loopTo,
                    config, dryRun, tieBreak, pages, removed, auditLog, run, err,
                    repos, continuationToken, allComponents, imageGroups, frame,
                    totalDeleted, totalKept, obs, past >>

(* The logger.DeletionRecord of the component at hand, its timestamp aside *)
Record(comp) ==
    [Repository |-> frame.repoName, ImageName |-> frame.imageName,
     Tag |-> comp.Version, ComponentID |-> comp.ID, Rule |-> frame.ruleName,
     DryRun |-> dryRun]

(* The deletion loop moves on with the given count of deletions: to the   *)
(* next component, or out of processImageGroup, whose counts Execute adds *)
(* to its totals.                                                         *)
LoopOn(deleted) ==
    IF frame.i < Len(frame.toDelete)
    THEN /\ frame' = [frame EXCEPT !.i = @ + 1, !.deleted = deleted]
         /\ UNCHANGED << pc, totalDeleted, totalKept >>
    ELSE /\ frame' = NoFrame
         /\ pc' = "range"
         /\ totalDeleted' = totalDeleted + deleted
         /\ totalKept' = totalKept + frame.kept

(* Mutant of WouldDelete: the simulation deletes *)
WouldDeleteForReal ==
    /\ pc = "delete"
    /\ dryRun
    /\ LET comp == frame.toDelete[frame.i]
       IN  /\ removed' = removed \cup {comp.ID}
           /\ auditLog' = Append(auditLog, Record(comp))
           /\ obs' = [obs EXCEPT !.audit = Append(@, Record(comp)),
                        !.deleteCalls = Append(@, [id |-> comp.ID, ok |-> TRUE])]
    /\ LoopOn(frame.deleted + 1)
    /\ UNCHANGED << mu, writer, file, jobs, loopTo,
                    config, dryRun, tieBreak, pages, run, err, repos, repoIdx,
                    continuationToken, allComponents, imageGroups, past >>

(* Simulate mode: the decision is logged and counted, nothing is deleted *)
WouldDelete ==
    /\ pc = "delete"
    /\ dryRun
    /\ LET comp == frame.toDelete[frame.i]
       IN  /\ auditLog' = Append(auditLog, Record(comp))
           /\ obs' = [obs EXCEPT !.audit = Append(@, Record(comp))]
    /\ LoopOn(frame.deleted + 1)
    /\ UNCHANGED << mu, writer, file, jobs, loopTo,
                    config, dryRun, tieBreak, pages, removed, run, err, repos,
                    repoIdx, continuationToken, allComponents, imageGroups, past >>

(* Execute mode, DeleteComponent succeeds: logged and counted *)
DeleteComponentOk ==
    /\ pc = "delete"
    /\ ~dryRun
    /\ LET comp == frame.toDelete[frame.i]
       IN  /\ removed' = removed \cup {comp.ID}
           /\ auditLog' = Append(auditLog, Record(comp))
           /\ obs' = [obs EXCEPT !.audit = Append(@, Record(comp)),
                        !.deleteCalls = Append(@, [id |-> comp.ID, ok |-> TRUE])]
    /\ LoopOn(frame.deleted + 1)
    /\ UNCHANGED << mu, writer, file, jobs, loopTo,
                    config, dryRun, tieBreak, pages, run, err, repos, repoIdx,
                    continuationToken, allComponents, imageGroups, past >>

(* Mutant of DeleteComponentFail: the failure ends the group's loop *)
DeleteComponentFailAbort ==
    /\ pc = "delete"
    /\ ~dryRun
    /\ obs' = [obs EXCEPT !.deleteCalls =
                  Append(@, [id |-> frame.toDelete[frame.i].ID, ok |-> FALSE])]
    /\ frame' = NoFrame
    /\ pc' = "range"
    /\ totalDeleted' = totalDeleted + frame.deleted
    /\ totalKept' = totalKept + frame.kept
    /\ UNCHANGED << mu, writer, file, jobs, loopTo,
                    config, dryRun, tieBreak, pages, removed, auditLog, run, err,
                    repos, repoIdx, continuationToken, allComponents,
                    imageGroups, past >>

(* Mutant of DeleteComponentFail: the failed attempt is logged too *)
DeleteComponentFailLogged ==
    /\ pc = "delete"
    /\ ~dryRun
    /\ LET comp == frame.toDelete[frame.i]
       IN  /\ auditLog' = Append(auditLog, Record(comp))
           /\ obs' = [obs EXCEPT !.audit = Append(@, Record(comp)),
                        !.deleteCalls = Append(@, [id |-> comp.ID, ok |-> FALSE])]
    /\ LoopOn(frame.deleted)
    /\ UNCHANGED << mu, writer, file, jobs, loopTo,
                    config, dryRun, tieBreak, pages, removed, run, err, repos,
                    repoIdx, continuationToken, allComponents, imageGroups, past >>

(* Execute mode, DeleteComponent fails: neither logged nor counted, and   *)
(* the loop continues with the next component.                           *)
DeleteComponentFail ==
    /\ pc = "delete"
    /\ ~dryRun
    /\ obs' = [obs EXCEPT !.deleteCalls =
                  Append(@, [id |-> frame.toDelete[frame.i].ID, ok |-> FALSE])]
    /\ LoopOn(frame.deleted)
    /\ UNCHANGED << mu, writer, file, jobs, loopTo,
                    config, dryRun, tieBreak, pages, removed, auditLog, run, err,
                    repos, repoIdx, continuationToken, allComponents,
                    imageGroups, past >>

-----------------------------------------------------------------------------
(* Scheduled execution: the Execute calls of cron's goroutines, which     *)
(* share the engine, the registry and the logger                          *)

(* What the actions of a job leave alone: the locals of the one-time call *)
ExecuteVars ==
    << auditLog, run, pc, err, repos, repoIdx, continuationToken, allComponents,
       imageGroups, frame, totalDeleted, totalKept, obs, past >>

RECURSIVE GetComponents(_, _, _)
(* Client.GetComponents, every request succeeding: the items of the pages *)
(* from the given token on, after those fetched already                   *)
GetComponents(repo, token, fetched) ==
    LET page == ServePage(repo, token)
    IN  IF page.ContinuationToken = ""
        THEN fetched \o page.Items
        ELSE GetComponents(repo, page.ContinuationToken, fetched \o page.Items)

(* cron triggers job p, whatever the other job is doing.  Its Execute     *)
(* lists repository r1 and reaches processImageGroup for one image, up to *)
(* the deletion loop.                                                     *)
Trigger(p, imageName) ==
    /\ jobs[p].pc = "waiting"
    /\ \E groups \in {groupByImageName(GetComponents("r1", "", << >>))} :
          /\ imageName \in DOMAIN groups
          /\ \E d \in {Decide(config, tieBreak, imageName, groups[imageName])} :
                jobs' = [jobs EXCEPT ![p] =
                          [@ EXCEPT !.pc = IF Len(d.toDelete) = 0
                                           THEN "done" ELSE "delete",
                                    !.repoName = "r1",
                                    !.imageName = imageName,
                                    !.ruleName = d.ruleName,
                                    !.toDelete = d.toDelete,
                                    !.i = 1]]
    /\ UNCHANGED << mu, writer, file, loopTo, config, dryRun, tieBreak, pages,
                    removed, ExecuteVars >>

(* The logger.DeletionRecord job p builds for the component at hand *)
JobRecord(p) ==
    LET comp == jobs[p].toDelete[jobs[p].i]
    IN  [Repository |-> jobs[p].repoName, ImageName |-> jobs[p].imageName,
         Tag |-> comp.Version, ComponentID |-> comp.ID,
         Rule |-> jobs[p].ruleName, DryRun |-> dryRun]

(* Simulate mode: job p goes on to log the decision *)
JobWouldDelete(p) ==
    /\ jobs[p].pc = "delete"
    /\ dryRun
    /\ jobs' = [jobs EXCEPT ![p].pc = "lock"]
    /\ UNCHANGED << mu, writer, file, loopTo, config, dryRun, tieBreak, pages,
                    removed, ExecuteVars >>

(* Execute mode: the registry deletes the component for job p *)
JobDeleteOk(p) ==
    /\ jobs[p].pc = "delete"
    /\ ~dryRun
    /\ jobs[p].toDelete[jobs[p].i].ID \notin removed
    /\ removed' = removed \cup {jobs[p].toDelete[jobs[p].i].ID}
    /\ jobs' = [jobs EXCEPT ![p].pc = "lock"]
    /\ UNCHANGED << mu, writer, file, loopTo, config, dryRun, tieBreak, pages,
                    ExecuteVars >>

(* Execute mode: DeleteComponent fails for job p (the other job may have  *)
(* deleted the component already), and its loop continues.                *)
JobDeleteFail(p) ==
    /\ jobs[p].pc = "delete"
    /\ ~dryRun
    /\ jobs' = [jobs EXCEPT ![p] =
                  IF @.i < Len(@.toDelete)
                  THEN [@ EXCEPT !.i = @ + 1]
                  ELSE [@ EXCEPT !.pc = "done"]]
    /\ UNCHANGED << mu, writer, file, loopTo, config, dryRun, tieBreak, pages,
                    removed, ExecuteVars >>

LogDeletionNoLock(p) ==
    /\ jobs[p].pc = "lock"
    /\ mu' = p
    /\ jobs' = [jobs EXCEPT ![p].pc = "write", ![p].n = 0]
    /\ UNCHANGED << writer, file, loopTo, config, dryRun, tieBreak, pages,
                    removed, ExecuteVars >>

(* LogDeletion, l.mu.Lock: job p goes on once it holds the mutex *)
LogDeletionLock(p) ==
    /\ jobs[p].pc = "lock"
    /\ mu = 0
    /\ mu' = p
    /\ jobs' = [jobs EXCEPT ![p].pc = "write", ![p].n = 0]
    /\ UNCHANGED << writer, file, loopTo, config, dryRun, tieBreak, pages,
                    removed, ExecuteVars >>

(* LogDeletion, l.writer.Write: csv.Writer puts the row into its buffer   *)
(* cell by cell, the line end last.                                       *)
LogDeletionWrite(p) ==
    /\ jobs[p].pc = "write"
    /\ \E row \in {Row(JobRecord(p))} :
          /\ writer' = Append(writer, row[jobs[p].n + 1])
          /\ jobs' = [jobs EXCEPT ![p].n = @ + 1,
                                  ![p].pc = IF jobs[p].n + 1 = Len(row)
                                            THEN "flush" ELSE "write"]
    /\ UNCHANGED << mu, file, loopTo, config, dryRun, tieBreak, pages, removed,
                    ExecuteVars >>

(* LogDeletion, l.writer.Flush: the buffer goes to the end of the file *)
LogDeletionFlush(p) ==
    /\ jobs[p].pc = "flush"
    /\ file' = file \o writer
    /\ writer' = << >>
    /\ jobs' = [jobs EXCEPT ![p].pc = "unlock"]
    /\ UNCHANGED << mu, loopTo, config, dryRun, tieBreak, pages, removed,
                    ExecuteVars >>

(* LogDeletion returns: the deferred l.mu.Unlock, then deleted++ and the  *)
(* next component of the loop                                             *)
LogDeletionUnlock(p) ==
    /\ jobs[p].pc = "unlock"
    /\ mu' = 0
    /\ jobs' = [jobs EXCEPT ![p] =
                  [@ EXCEPT !.logged = Append(@, JobRecord(p)),
                            !.deleted = @ + 1,
                            !.n = 0,
                            !.i = IF jobs[p].i < Len(jobs[p].toDelete)
                                  THEN @ + 1 ELSE @,
                            !.pc = IF jobs[p].i < Len(jobs[p].toDelete)
                                   THEN "delete" ELSE "done"]]
    /\ UNCHANGED << writer, file, loopTo, config, dryRun, tieBreak, pages,
                    removed, ExecuteVars >>

-----------------------------------------------------------------------------
(* Specifications *)

(* A config.Rule as Load leaves it: validated and compiled *)
Rule(name, regex, keep) ==
    [Name |-> name, Regex |-> regex, Keep |-> keep, compiled |-> TRUE]

(* The engine and the log right after construction, no run started *)
InitEngine ==
    /\ removed = {}
    /\ auditLog = << >>
    /\ InitLogger
    /\ run = 0
    /\ pc = "idle"
    /\ err = "none"
    /\ repos = << >>
    /\ repoIdx = 0
    /\ continuationToken = ""
    /\ allComponents = << >>
    /\ imageGroups = << >>
    /\ frame = NoFrame
    /\ totalDeleted = 0
    /\ totalKept = 0
    /\ obs = NoObs
    /\ past = << >>

(* The rule lists of the whole-run specification *)
RunRuleLists ==
    { << Rule("first", "^prod-.*", 1), Rule("second", ".*-app", 1) >>,
      << Rule("first", ".*", 2) >> }

(* The registries of the whole-run specification: r1 holds two pages with *)
(* the images prod-app (a protected tag without assets, three regular     *)
(* tags) and dev-app (two tags), r2 one page with two tags.               *)
RunRegistry(t, u, name) ==
    "r1" :> << << Comp("c1", "r1", "prod-app", "latest", << >>),
                  Comp("c2", "r1", "prod-app", "v1", <<1>>),
                  Comp("c3", "r1", "dev-app", "v1", <<1>>) >>,
               << Comp("c4", "r1", "prod-app", "v2", <<1, 2>>),
                  Comp("c5", "r1", "dev-app", "v2", <<t>>),
                  Comp("c6", "r1", "prod-app", "v3", <<2, 1>>) >> >>
    @@ "r2" :> << << Comp("c7", "r2", "prod-app", "v1", <<2>>),
                     Comp("c8", "r2", name, "v2", <<u>>) >> >>

(* Whole runs of Execute, from construction *)
Init ==
    /\ config \in [Rules : RunRuleLists, ProtectedTags : {{"latest"}}]
    /\ dryRun \in BOOLEAN
    /\ tieBreak \in TieBreaks
    /\ \E t \in Times, u \in Times, name \in {"prod-app", "misc"} :
          pages = RunRegistry(t, u, name)
    /\ loopTo = NoLoop
    /\ InitEngine

(* What a call of Execute does once entered *)
ExecuteStep ==
    \/ ListRepositoriesOk
    \/ ListRepositoriesFail
    \/ BeginGetComponents
    \/ ExecuteReturn
    \/ FetchPageOk
    \/ FetchPageFail
    \/ \E imageName \in ImageNames : ProcessImageGroup(imageName)
    \/ EndRange
    \/ WouldDelete
    \/ DeleteComponentOk
    \/ DeleteComponentFail

Next ==
    \/ OneTimeExecute
    \/ ExecuteStep

(* One-time execution *)
Spec == Init /\ [][Next]_vars

NextScheduled ==
    \/ ScheduledExecute
    \/ ExecuteStep

(* Scheduled execution: up to MaxRuns calls of Execute, one after another *)
SpecScheduled == Init /\ [][NextScheduled]_vars

(* Execute inside its repository loop, on repository r1 of a registry     *)
(* whose r2 is empty: GetComponents is called on the given page chain.    *)
InitFetching(chain) ==
    /\ pages = ("r1" :> chain @@ "r2" :> << >>)
    /\ loopTo = NoLoop
    /\ removed = {}
    /\ auditLog = << >>
    /\ InitLogger
    /\ run = 1
    /\ pc = "fetch"
    /\ err = "none"
    /\ repos = DockerHosted(RegistryRepos)
    /\ repoIdx = 1
    /\ continuationToken = ""
    /\ allComponents = << >>
    /\ imageGroups = << >>
    /\ frame = NoFrame
    /\ totalDeleted = 0
    /\ totalKept = 0
    /\ obs = NoObs
    /\ past = << >>

(* Execute in the same run, GetComponents having returned the single page *)
(* of r1: the range over the image groups is about to start.              *)
InitRanging(components) ==
    /\ pages = ("r1" :> << components >> @@ "r2" :> << >>)
    /\ loopTo = NoLoop
    /\ removed = {}
    /\ auditLog = << >>
    /\ InitLogger
    /\ run = 1
    /\ pc = "range"
    /\ err = "none"
    /\ repos = DockerHosted(RegistryRepos)
    /\ repoIdx = 1
    /\ continuationToken = ""
    /\ allComponents = components
    /\ imageGroups = groupByImageName(components)
    /\ frame = NoFrame
    /\ totalDeleted = 0
    /\ totalKept = 0
    /\ obs = [NoObs EXCEPT !.requests = << [repo |-> "r1", token |-> ""] >>]
    /\ past = << >>

(* Asset timestamp lists: no asset, one, or two of different age in       *)
(* either order                                                           *)
AssetLists ==
    {<< >>} \cup {<<t>> : t \in Times} \cup {<<1, 2>>, <<2, 1>>}

(* The group of one image with the given tags and asset timestamps, in    *)
(* listing order                                                          *)
Group(imageName, tags, times) ==
    [i \in 1..Len(tags) |->
        Comp("c" \o ToString(i), "r1", imageName, tags[i], times[i])]

(* processImageGroup on every group of up to MaxGroup components of one   *)
(* image, under one rule                                                  *)
InitGroup ==
    /\ \E keep \in 1..MaxKeep :
          config = [Rules |-> << Rule("first", "^prod-.*", keep) >>,
                    ProtectedTags |-> {"latest"}]
    /\ dryRun \in BOOLEAN
    /\ tieBreak \in TieBreaks
    /\ \E n \in 1..MaxGroup :
          \E tags \in [1..n -> {"latest", "v1"}], times \in [1..n -> AssetLists] :
              InitRanging(Group("prod-app", tags, times))

NextGroup ==
    \/ \E imageName \in ImageNames : ProcessImageGroup(imageName)
    \/ EndRange
    \/ WouldDelete
    \/ DeleteComponentOk
    \/ DeleteComponentFail

SpecGroup == InitGroup /\ [][NextGroup]_vars

(* config.Load, then processImageGroup: the rule lists of a configuration *)
(* file are no rule or one rule of any keep count from 0, and only those  *)
(* that pass Validate reach the engine.                                   *)
InitLoaded ==
    /\ \E rules \in {<< >>} \cup
                    {<< Rule("first", "^prod-.*", keep) >> : keep \in 0..MaxKeep} :
          /\ config = [Rules |-> rules, ProtectedTags |-> {"latest"}]
          /\ Validate(config)
    /\ dryRun \in BOOLEAN
    /\ tieBreak \in TieBreaks
    /\ \E n \in 1..MaxGroup :
          \E tags \in [1..n -> {"latest", "v1"}], times \in [1..n -> AssetLists] :
              InitRanging(Group("prod-app", tags, times))

SpecLoaded == InitLoaded /\ [][NextGroup]_vars

(* The rule lists: up to MaxRules rules over the patterns and keep-counts *)
RuleLists ==
    LET pool == { Rule(name, regex, keep) :
                  name \in RuleNames, regex \in Regexes, keep \in 1..MaxKeep }
    IN  UNION { [1..n -> pool] : n \in 1..MaxRules }

(* GetKeepCount, through processImageGroup, on every rule list and name *)
InitRules ==
    /\ config \in [Rules : RuleLists, ProtectedTags : {{"latest"}}]
    /\ dryRun = TRUE
    /\ tieBreak = "input"
    /\ \E imageName \in ImageNames :
          InitRanging(<< Comp("c1", "r1", imageName, "v1", <<1>>) >>)

NextRules ==
    \/ \E imageName \in ImageNames : ProcessImageGroup(imageName)
    \/ EndRange

SpecRules == InitRules /\ [][NextRules]_vars

(* The component of position i in a listing *)
Item(i) == Comp("c" \o ToString(i), "r1", "prod-app", "v1", <<1>>)

(* The page chain whose pages have the given sizes, over distinct items *)
Chain(sizes) ==
    LET start(p) == LET count[q \in 0..Len(sizes)] ==
                            IF q = 0 THEN 0 ELSE count[q - 1] + sizes[q]
                    IN  count[p - 1]
    IN  [p \in 1..Len(sizes) |-> [k \in 1..sizes[p] |-> Item(start(p) + k)]]

(* The page chains: up to MaxPages pages of up to MaxPageLen items each *)
Chains ==
    UNION { { Chain(sizes) : sizes \in [1..n -> 0..MaxPageLen] } : n \in 1..MaxPages }

(* GetComponents on every page chain *)
InitPages ==
    /\ config = [Rules |-> << Rule("first", ".*", 1) >>, ProtectedTags |-> {"latest"}]
    /\ dryRun = TRUE
    /\ tieBreak = "input"
    /\ \E chain \in Chains : InitFetching(chain)

NextPages ==
    \/ FetchPageOk
    \/ FetchPageFail

SpecPages == InitPages /\ [][NextPages]_vars

(* Scheduled execution with overlapping jobs, from construction *)
InitLog ==
    /\ config \in [Rules : RunRuleLists, ProtectedTags : {{"latest"}}]
    /\ dryRun \in BOOLEAN
    /\ tieBreak \in TieBreaks
    /\ \E t \in Times : pages = RunRegistry(t, 1, "misc")
    /\ loopTo = NoLoop
    /\ InitEngine

NextLog ==
    \E p \in Jobs :
        \/ \E imageName \in ImageNames : Trigger(p, imageName)
        \/ JobWouldDelete(p)
        \/ JobDeleteOk(p)
        \/ JobDeleteFail(p)
        \/ LogDeletionLock(p)
        \/ LogDeletionWrite(p)
        \/ LogDeletionFlush(p)
        \/ LogDeletionUnlock(p)

SpecLog == InitLog /\ [][NextLog]_vars

(* One-time execution against registries whose chains end or lead back:   *)
(* the last page of a repository may carry a token that asks for one of   *)
(* its pages again.                                                       *)
InitLooping ==
    /\ config \in [Rules : RunRuleLists, ProtectedTags : {{"latest"}}]
    /\ dryRun \in BOOLEAN
    /\ tieBreak \in TieBreaks
    /\ \E t \in Times, name \in {"prod-app", "misc"} :
          pages = RunRegistry(t, 1, name)
    /\ loopTo \in {to \in [{"r1", "r2"} -> 0..MaxPages] :
                      \A repo \in {"r1", "r2"} : to[repo] <= Len(pages[repo])}
    /\ InitEngine

(* GetComponents itself never stops asking; the model follows it for      *)
(* MaxRequests requests of a call of Execute.                             *)
NextLooping ==
    \/ OneTimeExecute
    \/ ListRepositoriesOk
    \/ ListRepositoriesFail
    \/ BeginGetComponents
    \/ ExecuteReturn
    \/ Len(obs.requests) < MaxRequests /\ FetchPageOk
    \/ FetchPageFail
    \/ \E imageName \in ImageNames : ProcessImageGroup(imageName)
    \/ EndRange
    \/ WouldDelete
    \/ DeleteComponentOk
    \/ DeleteComponentFail

(* Every registry request returns and Execute runs on: some step of the   *)
(* call is always taken while one is possible.                            *)
SpecLooping == InitLooping /\ [][NextLooping]_vars /\ WF_vars(NextLooping)

-----------------------------------------------------------------------------
(* Vocabulary of the properties, stated without the engine's operators *)

Range(seq) == {seq[i] : i \in 1..Len(seq)}

Min(a, b) == IF a < b THEN a ELSE b

(* How many entries of seq are x *)
Occurrences(seq, x) == Cardinality({i \in 1..Len(seq) : seq[i] = x})

(* Every component the registry was created with *)
RegistryComponents ==
    UNION { UNION { Range(pages[repo][p]) : p \in 1..Len(pages[repo]) } :
            repo \in DOMAIN pages }

(* The component of an id *)
CompOf(id) == CHOOSE comp \in RegistryComponents : comp.ID = id

(* Effective recency: the maximum lastModified over the assets, the zero  *)
(* timestamp without assets                                               *)
Recency(comp) ==
    IF comp.Assets = << >>
    THEN ZeroTime
    ELSE CHOOSE t \in {a.LastModified : a \in Range(comp.Assets)} :
            \A a \in Range(comp.Assets) : a.LastModified <= t

(* The tag is in the protected-tag set *)
HasProtectedTag(comp) == comp.Version \in config.ProtectedTags

(* The positions of the rules whose pattern matches the image name *)
MatchingRules(imageName) ==
    {i \in 1..Len(config.Rules) : MatchString(config.Rules[i].Regex, imageName)}

(* The observations of every Execute call, finished or in progress *)
AllObs == Range(past) \cup {obs}

(* The ids handed to DeleteComponent, and the ids with an audit record *)
DeleteCallIDs(o) == {c.id : c \in Range(o.deleteCalls)}
AuditIDs(o) == {r.ComponentID : r \in Range(o.audit)}

(* The same as sequences, in the order of the calls *)
DeleteCallIDSeq(o) == [i \in 1..Len(o.deleteCalls) |-> o.deleteCalls[i].id]
AuditIDSeq(o) == [i \in 1..Len(o.audit) |-> o.audit[i].ComponentID]

(* The number of DeleteComponent calls that succeeded *)
SucceededCalls(o) == Cardinality({i \in 1..Len(o.deleteCalls) : o.deleteCalls[i].ok})

-----------------------------------------------------------------------------
(* C1: a component with a protected tag is never passed to DeleteComponent, *)
(* never gets an audit record, and is counted as kept (once) whenever its   *)
(* image matches a rule, however old it is and however many regular         *)
(* components its group has.                                                *)
C1_ProtectedAlwaysKept ==
    /\ \A r \in Range(auditLog) : r.Tag \notin config.ProtectedTags
    /\ \A comp \in Range(frame.toDelete) : ~HasProtectedTag(comp)
    /\ \A o \in AllObs :
          /\ \A id \in DeleteCallIDs(o) \cup AuditIDs(o) : ~HasProtectedTag(CompOf(id))
          /\ \A d \in Range(o.decisions) :
                \A comp \in Range(d.components) :
                    HasProtectedTag(comp) /\ MatchingRules(d.image) # {}
                    => /\ Occurrences(o.kept, comp.ID) = 1
                       /\ comp.ID \notin Range(d.toDelete)

(* C1's case: a protected component older than every regular one, in a    *)
(* group with more regular components than the keep-count, after the      *)
(* group's deletions were issued in execute mode.                         *)
C1_Witness ==
    /\ ~dryRun
    /\ pc = "range"
    /\ \E d \in Range(obs.decisions) :
          /\ Len(d.toDelete) >= 1
          /\ Range(d.toDelete) \subseteq DeleteCallIDs(obs)
          /\ \E comp \in Range(d.components) :
                /\ HasProtectedTag(comp)
                /\ comp.ID \in Range(obs.kept)
                /\ \A other \in Range(d.components) :
                      ~HasProtectedTag(other) => Recency(comp) < Recency(other)

(* C2: in a matched group with keep-count k and n regular components,     *)
(* exactly min(k, n) regular components are kept, every component marked  *)
(* for deletion is regular and no more recent (by effective recency) than *)
(* every kept regular one, and nothing is marked when n <= k.             *)
C2_KeepsMostRecent ==
    \A o \in AllObs : \A d \in Range(o.decisions) :
        d.matched =>
        LET regular == {comp \in Range(d.components) : ~HasProtectedTag(comp)}
            n == Cardinality({i \in 1..Len(d.components) :
                                ~HasProtectedTag(d.components[i])})
            k == d.keepCount
        IN  /\ Len(d.toKeep) = Min(k, n)
            /\ Cardinality(Range(d.toKeep)) = Min(k, n)
            /\ Range(d.toKeep) \subseteq {comp.ID : comp \in regular}
            /\ Range(d.toDelete) \subseteq {comp.ID : comp \in regular}
            /\ \A x \in Range(d.toDelete), y \in Range(d.toKeep) :
                  Recency(CompOf(x)) <= Recency(CompOf(y))
            /\ n <= k => d.toDelete = << >>

(* C2's case: three regular components under keep-count 2, the one marked *)
(* for deletion strictly older than a kept component whose latest asset   *)
(* is not its first.                                                      *)
C2_Witness ==
    \E d \in Range(obs.decisions) :
        /\ d.matched
        /\ d.keepCount = 2
        /\ Len(d.toKeep) = 2
        /\ Len(d.toDelete) = 1
        /\ \E y \in Range(d.toKeep) :
              /\ Len(CompOf(y).Assets) = 2
              /\ CompOf(y).Assets[1].LastModified < CompOf(y).Assets[2].LastModified
              /\ Recency(CompOf(d.toDelete[1])) < Recency(CompOf(y))

(* C3: GetKeepCount is first-match-wins: the keep-count and the name are  *)
(* those of the rule at the smallest matching position, and matched is    *)
(* false exactly when no rule matches.                                    *)
C3_FirstMatchWins ==
    \A o \in AllObs : \A d \in Range(o.decisions) :
        LET hits == MatchingRules(d.image)
        IN  /\ d.matched <=> hits # {}
            /\ hits # {} =>
                  LET first == CHOOSE i \in hits : \A h \in hits : i <= h
                  IN  /\ d.keepCount = config.Rules[first].Keep
                      /\ d.ruleName = config.Rules[first].Name

(* C3's case: the image matches two rules that differ in name and         *)
(* keep-count, and the earlier one's were returned.                       *)
C3_Witness ==
    \E d \in Range(obs.decisions) :
        \E i \in MatchingRules(d.image), j \in MatchingRules(d.image) :
            /\ i < j
            /\ \A h \in MatchingRules(d.image) : i <= h
            /\ config.Rules[i].Keep # config.Rules[j].Keep
            /\ config.Rules[i].Name # config.Rules[j].Name
            /\ d.keepCount = config.Rules[i].Keep
            /\ d.ruleName = config.Rules[i].Name

(* The components a repository held when a call began *)
LiveAtStart(o, repo) ==
    {comp \in RegistryComponents :
        comp.Repository = repo /\ comp.ID \notin o.removedAtStart}

(* Every image group of the repository was handed to processImageGroup *)
EveryGroupVisited(o, repo) ==
    {d.image : d \in {e \in Range(o.decisions) : e.repo = repo}}
        = {comp.Name : comp \in LiveAtStart(o, repo)}

(* The audit record of a deletion decision, its timestamp aside *)
RecordOf(o, d, id) ==
    [Repository |-> d.repo, ImageName |-> d.image, Tag |-> CompOf(id).Version,
     ComponentID |-> id, Rule |-> d.ruleName, DryRun |-> o.dryRun]

(* C4: in simulate mode no DeleteComponent call is issued and the         *)
(* registry's component set stays what it was; the decisions are only     *)
(* recorded.                                                              *)
C4_SimulateDeletesNothing ==
    dryRun =>
        /\ removed = {}
        /\ \A o \in AllObs : o.deleteCalls = << >>
        /\ \A p \in Range(past) : p.removedAtEnd = p.removedAtStart

(* C4's case: a finished simulate run that recorded deletion decisions *)
C4_Witness ==
    /\ dryRun
    /\ \E p \in Range(past) :
          /\ p.err = "nil"
          /\ p.totalDeleted >= 2
          /\ Len(p.audit) >= 2
          /\ \E d \in Range(p.decisions) : Len(d.toDelete) >= 2

(* C5 as claimed: at the end of a run every component marked for deletion *)
(* has exactly one audit record, whether its delete call succeeded or     *)
(* failed, and the kept components have none.                             *)
C5_OneRecordPerDecision ==
    \A p \in Range(past) : \A d \in Range(p.decisions) :
        /\ \A id \in Range(d.toDelete) :
              Occurrences(AuditIDSeq(p), id) = 1
        /\ \A id \in Range(d.toKeep) \cup Range(d.protectedComps) :
              Occurrences(AuditIDSeq(p), id) = 0

(* C5 amended: at the end of a run a component marked for deletion has    *)
(* exactly one audit record if the run simulates or its delete call       *)
(* succeeded, and none if its delete call failed; the kept components     *)
(* have none.                                                             *)
C5_OneRecordPerDeletion ==
    \A p \in Range(past) : \A d \in Range(p.decisions) :
        /\ \A id \in Range(d.toDelete) :
              LET succeeded == [id |-> id, ok |-> TRUE] \in Range(p.deleteCalls)
                  failed == [id |-> id, ok |-> FALSE] \in Range(p.deleteCalls)
              IN  /\ ~p.dryRun => (succeeded <=> ~failed)
                  /\ Occurrences(AuditIDSeq(p), id)
                        = IF p.dryRun \/ succeeded THEN 1 ELSE 0
                  /\ p.dryRun \/ succeeded => RecordOf(p, d, id) \in Range(p.audit)
        /\ \A id \in Range(d.toKeep) \cup Range(d.protectedComps) :
              Occurrences(AuditIDSeq(p), id) = 0

(* C5's case: a finished execute run in which, of two components marked  *)
(* in one group, one delete call failed and the other succeeded.          *)
C5_Witness ==
    \E p \in Range(past) : \E d \in Range(p.decisions) :
        /\ ~p.dryRun
        /\ \E x \in Range(d.toDelete), y \in Range(d.toDelete) :
              /\ [id |-> x, ok |-> FALSE] \in Range(p.deleteCalls)
              /\ [id |-> y, ok |-> TRUE] \in Range(p.deleteCalls)
              /\ x \notin AuditIDs(p)
              /\ y \in AuditIDs(p)

(* C6: in execute mode a failed DeleteComponent call aborts nothing:      *)
(* every component marked for deletion is attempted once, every group of  *)
(* every listed repository is visited and every repository is requested;  *)
(* the deleted count of the run is the number of calls that succeeded.    *)
C6_FailedDeleteAbortsNothing ==
    \A p \in Range(past) :
        ~p.dryRun /\ ~p.listFailed =>
            /\ \A d \in Range(p.decisions) : \A id \in Range(d.toDelete) :
                  Occurrences(DeleteCallIDSeq(p), id) = 1
            /\ \A repo \in Range(p.repos) :
                  /\ \E r \in Range(p.requests) : r.repo = repo
                  /\ repo \notin p.failedRepos => EveryGroupVisited(p, repo)
            /\ p.totalDeleted = SucceededCalls(p)

(* C6's case: a finished execute run with a failed call followed by a     *)
(* successful call in the same group, and a successful call in the later  *)
(* repository.                                                            *)
C6_Witness ==
    \E p \in Range(past) :
        /\ ~p.dryRun
        /\ p.totalDeleted = 2
        /\ \E d \in Range(p.decisions) :
              \E i \in 1..Len(p.deleteCalls), j \in 1..Len(p.deleteCalls) :
                  /\ i < j
                  /\ ~p.deleteCalls[i].ok
                  /\ p.deleteCalls[j].ok
                  /\ {p.deleteCalls[i].id, p.deleteCalls[j].id} \subseteq Range(d.toDelete)
        /\ \E c \in Range(p.deleteCalls) : c.ok /\ CompOf(c.id).Repository = "r2"

(* C7: Execute returns an error exactly when listing the repositories     *)
(* fails.  When a repository's component listing fails on any page, no    *)
(* component list is returned, none of its components is counted, deleted *)
(* or logged, the other repositories are still processed and Execute      *)
(* returns nil.                                                           *)
C7_OnlyRepositoryListingIsFatal ==
    /\ pc = "loop" /\ repoIdx > 1 /\ repos[repoIdx - 1] \in obs.failedRepos
          => allComponents = << >>
    /\ \A p \in Range(past) :
          /\ p.err = (IF p.listFailed THEN "error" ELSE "nil")
          /\ ~p.listFailed =>
                \A repo \in Range(DockerHosted(RegistryRepos)) :
                    /\ \E r \in Range(p.requests) : r.repo = repo
                    /\ repo \notin p.failedRepos => EveryGroupVisited(p, repo)
          /\ \A repo \in p.failedRepos :
                /\ \A d \in Range(p.decisions) : d.repo # repo
                /\ \A comp \in RegistryComponents :
                      comp.Repository = repo =>
                          comp.ID \notin Range(p.kept) \cup DeleteCallIDs(p)
                                             \cup AuditIDs(p)

(* C7's case: a finished run whose listing of r1 failed on its second     *)
(* page, the first having been fetched, while r2 was processed and        *)
(* logged, and Execute returned nil.                                      *)
C7_Witness ==
    \E p \in Range(past) :
        /\ p.err = "nil"
        /\ p.failedRepos = {"r1"}
        /\ [repo |-> "r1", token |-> Token(1)] \in Range(p.requests)
        /\ \E r \in Range(p.audit) : r.Repository = "r2"
        /\ p.totalKept >= 1

RECURSIVE Flatten(_)
(* The items of a page chain, page after page *)
Flatten(chain) ==
    IF chain = << >> THEN << >> ELSE Head(chain) \o Flatten(Tail(chain))

(* C8: when every request succeeds, GetComponents returns the items of    *)
(* all pages in page order, none dropped and none duplicated; each        *)
(* request after the first carries the previous response's token, and the *)
(* fetch stops at the first response with an empty token.                 *)
C8_PaginationComplete ==
    LET chain == pages["r1"]
        asked == Len(obs.requests)
    IN  /\ pc = "fetch" =>
              /\ asked < Len(chain)
              /\ allComponents = Flatten(SubSeq(chain, 1, asked))
              /\ continuationToken = (IF asked = 0 THEN "" ELSE Token(asked))
        /\ pc = "range" =>
              /\ allComponents = Flatten(chain)
              /\ Cardinality(Range(IDs(allComponents))) = Len(Flatten(chain))
              /\ [t \in 1..asked |-> obs.requests[t]]
                    = [t \in 1..Len(chain) |->
                          [repo |-> "r1",
                           token |-> IF t = 1 THEN "" ELSE Token(t - 1)]]

(* C8's case: three pages of two items, all six returned *)
C8_Witness ==
    /\ pc = "range"
    /\ Len(pages["r1"]) = 3
    /\ \A p \in 1..3 : Len(pages["r1"][p]) = 2
    /\ Len(allComponents) = 6
    /\ Len(obs.requests) = 3

RECURSIVE KeptInMatched(_)
(* The components of the matched groups that were not marked for deletion *)
KeptInMatched(decisions) ==
    IF decisions = << >>
    THEN 0
    ELSE (IF MatchingRules(Head(decisions).image) = {}
          THEN 0
          ELSE Len(Head(decisions).components) - Len(Head(decisions).toDelete))
         + KeptInMatched(Tail(decisions))

(* C9: a group whose image matches no rule is skipped: none of its        *)
(* components is counted as kept, handed to DeleteComponent or logged,    *)
(* and the run's counts are those of the matched groups alone.            *)
C9_UnmatchedGroupSkipped ==
    /\ \A o \in AllObs : \A d \in Range(o.decisions) :
          MatchingRules(d.image) = {} =>
              /\ d.toDelete = << >>
              /\ \A comp \in Range(d.components) :
                    comp.ID \notin Range(o.kept) \cup DeleteCallIDs(o) \cup AuditIDs(o)
    /\ \A p \in Range(past) :
          /\ p.totalKept = KeptInMatched(p.decisions)
          /\ p.totalDeleted = Len(p.audit)

(* C9's case: a finished execute run that visited the unmatched image     *)
(* misc and kept and deleted components of other images.                  *)
C9_Witness ==
    \E p \in Range(past) :
        /\ ~p.dryRun
        /\ \E d \in Range(p.decisions) :
              d.image = "misc" /\ MatchingRules("misc") = {}
        /\ p.totalKept >= 1
        /\ p.totalDeleted >= 1

(* The keep/delete partitions of a run, per repository and image *)
Partitions(o) ==
    { [repo |-> d.repo, image |-> d.image, protectedComps |-> d.protectedComps,
       toKeep |-> d.toKeep, toDelete |-> d.toDelete] : d \in Range(o.decisions) }

(* C10: two simulate runs over the same registry snapshot, both with      *)
(* every request succeeding, produce the same keep/delete partitions and  *)
(* the same audit records in the same order.                              *)
C10_SimulateIdempotent ==
    /\ Len(past) = 2
    /\ \A p \in Range(past) : p.dryRun /\ ~p.listFailed /\ p.failedRepos = {}
    /\ past[1].removedAtStart = past[2].removedAtStart
    => /\ Partitions(past[1]) = Partitions(past[2])
       /\ past[1].audit = past[2].audit

(* C11: after the partition of a matched image group, the keep split and  *)
(* the delete split of the regular components share no component and      *)
(* together are the regular components, so the number kept plus the       *)
(* number marked for deletion is the number of regular components.        *)
C11_SplitPartitionsRegular ==
    \A o \in AllObs : \A d \in Range(o.decisions) :
        d.matched =>
            /\ Range(d.toKeep) \cap Range(d.toDelete) = {}
            /\ Range(d.toKeep) \cup Range(d.toDelete) = Range(IDs(d.regularComps))
            /\ Len(d.toKeep) + Len(d.toDelete) = Len(d.regularComps)
            /\ Range(IDs(d.regularComps)) \cap Range(d.protectedComps) = {}

(* C11's case: a matched group whose regular components outnumber the     *)
(* keep count, so that both splits are non-empty, beside a protected one. *)
C11_Witness ==
    \E d \in Range(obs.decisions) :
        /\ d.matched
        /\ Len(d.toKeep) >= 1
        /\ Len(d.toDelete) >= 1
        /\ Len(d.protectedComps) >= 1

(* The regular components of a decision that no other regular component  *)
(* of it is more recent than                                              *)
MostRecentRegular(d) ==
    {comp.ID : comp \in {c \in Range(d.regularComps) :
                    \A other \in Range(d.regularComps) :
                        Recency(other) <= Recency(c)}}

(* C13: under a configuration that passed Validate, every matched image   *)
(* group with a regular component keeps a regular component: one that is  *)
(* most recent among them is kept and never passed to DeleteComponent,    *)
(* one strictly more recent than all others is never marked for deletion, *)
(* and no run removes all regular components of the group.                *)
C13_KeepsAtLeastOne ==
    \A o \in AllObs : \A d \in Range(o.decisions) :
        d.matched /\ Len(d.regularComps) >= 1 =>
            /\ d.keepCount >= 1
            /\ Len(d.toKeep) >= 1
            /\ \E id \in MostRecentRegular(d) :
                  /\ id \in Range(d.toKeep)
                  /\ id \notin Range(d.toDelete) \cup DeleteCallIDs(o) \cup removed
            /\ Cardinality(MostRecentRegular(d)) = 1 =>
                  MostRecentRegular(d) \cap Range(d.toDelete) = {}
            /\ ~(Range(IDs(d.regularComps)) \subseteq removed)

(* C13's case: an execute run under keep count 1 has deleted every        *)
(* regular component of a matched group of three but the most recent.     *)
C13_Witness ==
    /\ ~dryRun
    /\ pc = "range"
    /\ \E d \in Range(obs.decisions) :
          /\ d.matched
          /\ d.keepCount = 1
          /\ Len(d.regularComps) = 3
          /\ Len(d.toDelete) = 2
          /\ Range(d.toDelete) \subseteq removed

(* Job p is inside LogDeletion, past l.mu.Lock *)
InLogDeletion(p) == jobs[p].pc \in {"write", "flush", "unlock"}

(* The lines of the log file: its cells cut where a full row ends *)
Lines(cells) ==
    [k \in 1..(Len(cells) \div Len(Header)) |->
        SubSeq(cells, (k - 1) * Len(Header) + 1, k * Len(Header))]

(* The records whose append job p has completed: those LogDeletion        *)
(* returned for, and the one flushed and about to return                  *)
Appended(p) ==
    jobs[p].logged \o (IF jobs[p].pc = "unlock" THEN << JobRecord(p) >> ELSE << >>)

(* The rows of a sequence of records *)
Rows(records) == [k \in 1..Len(records) |-> Row(records[k])]

(* C12: when the Execute calls of two triggers overlap, at most one       *)
(* LogDeletion is between its Lock and its Unlock at any time, and it is  *)
(* the holder of the mutex; the writer's buffer holds cells of the        *)
(* holder's row only; the file consists of whole lines, the header and    *)
(* then one line for every completed append of either job, each as often  *)
(* as it was appended, none lost and none mixed with another.             *)
C12_AppendsMutuallyExclusive ==
    /\ Cardinality({p \in Jobs : InLogDeletion(p)}) <= 1
    /\ \A p \in Jobs : InLogDeletion(p) <=> mu = p
    /\ \A p \in Jobs :
          /\ jobs[p].pc = "write" =>
                writer = SubSeq(Row(JobRecord(p)), 1, jobs[p].n)
          /\ jobs[p].pc = "flush" => writer = Row(JobRecord(p))
    /\ (\A p \in Jobs : jobs[p].pc \notin {"write", "flush"}) => writer = << >>
    /\ Len(file) % Len(Header) = 0
    /\ Lines(file)[1] = Header
    /\ Len(Lines(file)) = 1 + Len(Appended(1)) + Len(Appended(2))
    /\ \A line \in Range(Lines(file)) \cup Range(Rows(Appended(1) \o Appended(2))) :
          Occurrences(Tail(Lines(file)), line)
              = Occurrences(Rows(Appended(1) \o Appended(2)), line)
    /\ \A p \in Jobs : \A record \in Range(jobs[p].logged) :
          record.ComponentID \in Range(IDs(jobs[p].toDelete))

(* C12's case: both jobs have appended a record before, job 1 holds the   *)
(* mutex in the middle of writing a row, and job 2 has called LogDeletion *)
(* and waits for the mutex.                                               *)
C12_Witness ==
    /\ mu = 1
    /\ jobs[1].pc = "write"
    /\ jobs[1].n >= 1
    /\ jobs[1].n < Len(Header)
    /\ jobs[2].pc = "lock"
    /\ Len(jobs[1].logged) >= 1
    /\ Len(jobs[2].logged) >= 1

(* Execute has returned *)
Returned == run = 1 /\ pc = "idle"

(* C14: when every request returns and every repository's chain of        *)
(* continuation tokens ends, Execute returns, whichever requests fail.    *)
(* GetComponents stops only on a failed request or on a response whose    *)
(* token is empty; for a repository whose last page leads back with a     *)
(* token it never returns its components, and as long as its requests     *)
(* succeed it is still fetching.                                          *)
C14_TerminatesOnFiniteChains ==
    /\ (loopTo = NoLoop) => <>Returned
    /\ [][pc = "fetch" /\ pc' # "fetch" =>
             \/ obs'.failedRepos # obs.failedRepos
             \/ ServePage(repos[repoIdx], continuationToken).ContinuationToken = ""]_vars
    /\ [](pc \in {"range", "delete"} => loopTo[repos[repoIdx]] = 0)
    /\ [](pc = "fetch" /\ loopTo = NoLoop => Len(obs.requests) < MaxRequests)
    /\ [](Returned => \A repo \in Range(repos) :
                         loopTo[repo] # 0 => repo \in past[1].failedRepos)

(* C14's case: Execute has returned although the listing of one           *)
(* repository failed, after two pages of a chain that ends.               *)
C14_Witness ==
    /\ Returned
    /\ loopTo = NoLoop
    /\ past[1].failedRepos = {"r2"}
    /\ [repo |-> "r1", token |-> Token(1)] \in Range(past[1].requests)
    /\ past[1].totalDeleted >= 1

(* A registry that returns the same token again: GetComponents is still   *)
(* fetching after asking with that token more than once.                  *)
C14_StillFetching ==
    /\ pc = "fetch"
    /\ loopTo["r1"] = Len(pages["r1"])
    /\ Occurrences(obs.requests, [repo |-> "r1", token |-> Token(2)]) >= 3

====
